---- MODULE Spec2Model ----
(***************************************************************************)
(* Model of src/app.py, the ADU permit chatbot.                            *)
(*                                                                         *)
(* The script is re-executed top to bottom on every user interaction; one  *)
(* execution is an interaction cycle.  st.session_state survives between   *)
(* cycles, everything else (role_selection, prompt, the local vector_store *)
(* of the setup block) lives for one cycle.  Every remote call of the      *)
(* script is one step that either returns or raises; a call that raises    *)
(* leaves the remote side unchanged.  An exception outside the try block   *)
(* of the chat handler ends the cycle at the raising line.                 *)
(*                                                                         *)
(* Text is a sequence of characters/tokens, so that strip() and the        *)
(* "Error: " prefix are computed, not assumed.                             *)
(***************************************************************************)
EXTENDS Integers, Sequences, FiniteSets, TLC

\* ------------------------------------------------------------------ bounds
MaxCycles == 4
MaxSubmits == 2
MaxFiles == 2

\* --------------------------------------------------------------- constants
Roles == {"Applicant", "Planner"}

ApplicantInstructions ==
    "You are a chatbot for ADU permit discussions. Your role is that of an applicant advocating for an ADU permit by persuasively citing the city's ADU ordinance. For example, if asked, 'I'm preparing my application for an ADU permit. How does the ordinance justify an increased number of ADUs in my neighborhood?', you should respond with a persuasive argument such as: 'According to section 3.2 of the ADUHandbookUpdate.pdf, the ordinance allows...'. The uploaded documents include letters and ordinances, with the ADUHandbookUpdate.pdf (the statewide file) taking precedence over individual files. Whenever possible, provide specific citations to ordinance sections that support the permit application."

PlannerInstructions ==
    "You are a chatbot for ADU permit discussions. Your role is that of a city planner who is skeptical about an increased number of ADUs. Your responses should be antagonistic, highlighting potential negative impacts of ADUs and questioning the applicant's interpretation of the ordinance. For example, if asked, 'I'm preparing my application for an ADU permit. How does the ordinance justify an increased number of ADUs in my neighborhood?', you should respond with a critical counterargument such as: 'The ordinance in section 3.2 of the ADUHandbookUpdate.pdf is ambiguous and does not fully address community impacts.' The uploaded documents include letters and ordinances, with the ADUHandbookUpdate.pdf (the statewide file) taking precedence over individual files. Whenever possible, provide specific citations to ordinance sections that support your perspective."

Greeting == <<"How can I assist you with your ADU permit application?">>

NoResponse == <<"No response received from the assistant.">>

ErrorPrefix == <<"Error: ">>

Whitespace == {" ", "\n"}

\* The index identifier st.secrets["VECTOR_STORE_ID"]["vs_id"]; stores made by
\* vector_stores.create get the identifiers 1, 2, ...
StoredVsId == 0

LETTERS_DIR == "data/Letters"
ORDINANCES_DIR == "data/Ordinances"
statewide_file == [name |-> "ADUHandbookUpdate", ext |-> ".pdf"]

\* ------------------------------------------------------------ pure helpers
get_instructions(role) ==
    IF role = "Applicant" THEN ApplicantInstructions ELSE PlannerInstructions

\* str.lower() on the extension of a file name
lower(ext) == IF ext = ".PDF" THEN ".pdf" ELSE ext

IsPdf(f) == lower(f.ext) = ".pdf"

Path(dir, f) == [dir |-> dir, name |-> f.name, ext |-> f.ext]

RECURSIVE PdfsOf(_, _, _)
\* the loop "for filename in os.listdir(dir): if keep: append(join(dir, filename))"
PdfsOf(dir, listing, skip) ==
    IF listing = <<>> THEN <<>>
    ELSE LET f == Head(listing)
             rest == PdfsOf(dir, Tail(listing), skip)
         IN IF IsPdf(f) /\ f \notin skip THEN <<Path(dir, f)>> \o rest ELSE rest

InListing(f, listing) == \E i \in 1..Len(listing) : listing[i] = f

\* the statewide file appended like any other file instead of insert(0, ...)
get_pdf_file_paths_append(letters, ordinances) ==
    LET fromLetters == IF letters.exists
                       THEN PdfsOf(LETTERS_DIR, letters.files, {})
                       ELSE <<>>
    IN IF ordinances.exists
       THEN fromLetters \o PdfsOf(ORDINANCES_DIR, ordinances.files, {})
       ELSE fromLetters

\* the ordinances folder crawled before the letters folder
get_pdf_file_paths_ordinances_first(letters, ordinances) ==
    LET fromLetters == IF letters.exists
                       THEN PdfsOf(LETTERS_DIR, letters.files, {})
                       ELSE <<>>
        fromOrdinances ==
            IF ordinances.exists
            THEN (IF InListing(statewide_file, ordinances.files)
                  THEN <<Path(ORDINANCES_DIR, statewide_file)>> ELSE <<>>)
                 \o PdfsOf(ORDINANCES_DIR, ordinances.files, {statewide_file})
            ELSE <<>>
    IN fromOrdinances \o fromLetters

\* A directory is [exists, files]: files is what os.listdir yields, in order.
get_pdf_file_paths(letters, ordinances) ==
    LET fromLetters == IF letters.exists
                       THEN PdfsOf(LETTERS_DIR, letters.files, {})
                       ELSE <<>>
        withStatewide == IF ordinances.exists /\ InListing(statewide_file, ordinances.files)
                         THEN <<Path(ORDINANCES_DIR, statewide_file)>> \o fromLetters
                         ELSE fromLetters
    IN IF ordinances.exists
       THEN withStatewide \o PdfsOf(ORDINANCES_DIR, ordinances.files, {statewide_file})
       ELSE withStatewide

RECURSIVE lstrip(_)
lstrip(s) == IF s # <<>> /\ Head(s) \in Whitespace THEN lstrip(Tail(s)) ELSE s

RECURSIVE rstrip(_)
rstrip(s) ==
    IF s # <<>> /\ s[Len(s)] \in Whitespace THEN rstrip(SubSeq(s, 1, Len(s) - 1)) ELSE s

strip_leading(s) == lstrip(s)

strip(s) == rstrip(lstrip(s))

StartsWith(s, p) == Len(s) >= Len(p) /\ SubSeq(s, 1, Len(p)) = p

IsPrefix(s, t) == Len(s) <= Len(t) /\ SubSeq(t, 1, Len(s)) = s

Count(s, x) == Cardinality({i \in 1..Len(s) : s[i] = x})

Turn(role, content) == [role |-> role, content |-> content]

\* ------------------------------------------------------------ input sets
\* what st.chat_input returns on a submission; <<>> stands for None
Prompts == {<<"q">>}
NoPrompt == <<>>

\* what threads.messages.list can return for a run: a message has a list of
\* content blocks, a block of type "text" has a text value
TextBlock(v) == [type |-> "text", value |-> v]
ImageBlock == [type |-> "image_file", value |-> <<>>]
Message(blocks) == [content |-> blocks]
MessageLists ==
    { <<>>,
      <<Message(<<TextBlock(<<" ", "a", "\n">>)>>), Message(<<TextBlock(<<"c">>)>>)>>,
      <<Message(<<>>)>>,
      <<Message(<<ImageBlock>>)>> }

\* str(e) of the exceptions the steps of a reply cycle raise: the client
\* reports a failed remote call of any kind as a connection error
APIConnectionError == <<"Connection error.">>
IndexError == <<"list index out of range">>
AttributeError == <<"no attribute 'text'">>

Dir(exists, files) == [exists |-> exists, files |-> files]
File(name, ext) == [name |-> name, ext |-> ext]
NoDir == Dir(FALSE, <<>>)

\* the contents of data/Letters and data/Ordinances a session can start with
FileSystems ==
    { [letters |-> NoDir, ordinances |-> NoDir],
      [letters |-> Dir(TRUE, <<File("notes", ".txt")>>), ordinances |-> Dir(TRUE, <<>>)],
      [letters |-> Dir(TRUE, <<File("a", ".pdf"), File("notes", ".txt")>>),
       ordinances |-> Dir(TRUE, <<File("c", ".PDF"), statewide_file>>)] }

\* the file names a folder can hold, and what os.listdir can yield for a
\* folder of at most MaxFiles files: each name once, in any order
FileNames == {statewide_file, File("a", ".pdf"), File("b", ".PDF"), File("notes", ".txt")}

Listings ==
    { l \in UNION { [1..k -> FileNames] : k \in 0..MaxFiles } :
        \A i, j \in 1..Len(l) : l[i] = l[j] => i = j }

Folders == {NoDir} \cup { Dir(TRUE, l) : l \in Listings }

\* ------------------------------------------------------------------ state
VARIABLES
    pc,               \* the line group the running cycle is at; "idle" between cycles
    cycle,            \* number of cycles started
    role_selection,   \* value of the sidebar radio in this cycle (line 24)
    prompt,           \* value of st.chat_input in this cycle (line 183)
    chat_input_shown, \* the previous cycle rendered the chat input (reached line 183)
    session_keys,     \* keys present in st.session_state
    session_state,    \* their values
    vector_store,     \* the local variable of the setup block (line 142)
    thread,           \* the thread of the running reply cycle
    messages_list,    \* line 132
    exc,              \* str(e) of the exception the chat handler caught
    assistants,       \* remote: the assistants, indexed by id
    vector_stores,    \* remote: the files of the stores made by create, indexed by id
    secrets,          \* "VECTOR_STORE_ID" in st.secrets
    fs,               \* the two document folders
    resolved,         \* what get_pdf_file_paths returned when run on its own
    calls,            \* remote calls and sidebar notices of this cycle, in order
    raised_at,        \* the step whose exception ended this cycle, "" if none
    entry_role,       \* st.session_state.current_role after line 60 of this cycle
    entry_messages,   \* the transcript when this cycle started
    prev_cycle,       \* summary of the previous cycle, kept when it selected Planner
                      \* after a completed Applicant cycle
    completed_role,   \* role_selection of the latest cycle that ran to its end
    vs_create_calls,  \* vector_stores.create calls of the whole session
    create_ok         \* assistants.create calls of the session that returned

vars == <<pc, cycle, role_selection, prompt, chat_input_shown, session_keys,
          session_state, vector_store, thread, messages_list, exc, assistants,
          vector_stores, secrets, fs, resolved, calls, raised_at, entry_role,
          entry_messages, prev_cycle, completed_role, vs_create_calls, create_ok>>

inputs == <<role_selection, prompt>>
locals == <<vector_store, thread, messages_list, exc>>
remote == <<assistants, vector_stores>>
environment == <<secrets, fs, resolved>>
history == <<entry_messages, prev_cycle, completed_role>>

None == <<>>
NoAssistant == [id |-> 0, instructions |-> "", vector_store_ids |-> <<>>]
NoThread == [messages |-> <<>>, assistant_id |-> 0]

NoCycle == [role |-> "", entry_role |-> "", updates |-> 0, raised_at |-> "",
            completed_role |-> ""]

In(key) == key \in session_keys

Submissions ==
    Cardinality({i \in 1..Len(session_state.messages) :
                   session_state.messages[i].role = "user"})

InstructionUpdates(log) == Count(log, "assistants.update(instructions)")

\* a fresh session: nothing in st.session_state, nothing made remotely
InitSession ==
    /\ pc = "idle"
    /\ cycle = 0
    /\ role_selection = "Applicant"
    /\ prompt = NoPrompt
    /\ chat_input_shown = FALSE
    /\ session_keys = {}
    /\ session_state = [vector_store |-> None, current_role |-> "",
                        assistant |-> NoAssistant, messages |-> <<>>]
    /\ vector_store = None
    /\ thread = NoThread
    /\ messages_list = <<>>
    /\ exc = <<>>
    /\ assistants = <<>>
    /\ vector_stores = <<>>
    /\ resolved = <<>>
    /\ calls = <<>>
    /\ raised_at = ""
    /\ entry_role = ""
    /\ entry_messages = <<>>
    /\ prev_cycle = NoCycle
    /\ completed_role = ""
    /\ vs_create_calls = 0
    /\ create_ok = 0

Init ==
    /\ InitSession
    /\ secrets \in BOOLEAN
    /\ fs \in FileSystems

\* --------------------------------------------------------------- the cycle
\* An exception that nothing catches: the script stops at the raising line.
Raise_resume(at) ==
    /\ pc' = "chat"
    /\ raised_at' = at
    /\ UNCHANGED <<cycle, chat_input_shown>>

Raise(at) ==
    /\ pc' = "idle"
    /\ UNCHANGED cycle
    /\ raised_at' = at
    /\ chat_input_shown' = FALSE

\* A user interaction re-executes the script.  The radio may hold either
\* role; a prompt can only come from a chat input the previous cycle drew.
Rerun(r, p) ==
    /\ pc = "idle"
    /\ p # NoPrompt => chat_input_shown /\ Submissions < MaxSubmits
    /\ cycle < MaxCycles
    /\ pc' = "init"
    /\ cycle' = cycle + 1
    /\ role_selection' = r
    /\ prompt' = p
    /\ calls' = <<>>
    /\ raised_at' = ""
    /\ entry_messages' = session_state.messages
    /\ prev_cycle' = IF completed_role = "Applicant" /\ role_selection = "Planner"
                     THEN [role |-> role_selection, entry_role |-> entry_role,
                           updates |-> InstructionUpdates(calls),
                           raised_at |-> raised_at, completed_role |-> completed_role]
                     ELSE NoCycle
    /\ completed_role' = IF cycle > 0 /\ raised_at = "" THEN role_selection
                         ELSE completed_role
    /\ vector_store' = None
    /\ thread' = NoThread
    /\ messages_list' = <<>>
    /\ exc' = <<>>
    /\ UNCHANGED <<chat_input_shown, session_keys, session_state, remote,
                   environment, entry_role, vs_create_calls, create_ok>>

\* lines 57-60
InitSessionState ==
    /\ pc = "init"
    /\ pc' = "assistant"
    /\ session_keys' = session_keys \cup {"vector_store", "current_role"}
    /\ session_state' =
         [session_state EXCEPT
            !.vector_store = IF In("vector_store") THEN @ ELSE None,
            !.current_role = IF In("current_role") THEN @ ELSE role_selection]
    /\ entry_role' = session_state'.current_role
    /\ UNCHANGED <<cycle, inputs, chat_input_shown, locals, remote, environment,
                   calls, raised_at, history, vs_create_calls, create_ok>>

AssistantMissing_always == TRUE

AssistantMissing == ~In("assistant")

\* lines 61-68
CreateAssistant ==
    /\ pc = "assistant"
    /\ IF AssistantMissing
       THEN /\ calls' = Append(calls, "assistants.create")
            /\ \/ LET new == [id |-> Len(assistants) + 1,
                              instructions |-> get_instructions(role_selection),
                              vector_store_ids |-> <<>>]
                  IN /\ assistants' = Append(assistants, new)
                     /\ session_state' = [session_state EXCEPT !.assistant = new]
                     /\ session_keys' = session_keys \cup {"assistant"}
                     /\ create_ok' = create_ok + 1
                     /\ pc' = "messages"
                     /\ UNCHANGED <<cycle, raised_at, chat_input_shown>>
               \/ /\ Raise("assistants.create")
                  /\ UNCHANGED <<assistants, session_state, session_keys, create_ok>>
       ELSE /\ pc' = "messages"
            /\ UNCHANGED <<calls, assistants, session_state, session_keys,
                           create_ok, cycle, raised_at, chat_input_shown>>
    /\ UNCHANGED <<inputs, locals, vector_stores, environment, entry_role,
                   history, vs_create_calls>>

InitialMessages_empty == <<>>

InitialMessages == <<Turn("assistant", Greeting)>>

\* lines 69-72
SeedMessages ==
    /\ pc = "messages"
    /\ pc' = "role"
    /\ session_keys' = session_keys \cup {"messages"}
    /\ session_state' =
         [session_state EXCEPT !.messages = IF In("messages") THEN @ ELSE InitialMessages]
    /\ UNCHANGED <<cycle, inputs, chat_input_shown, locals, remote, environment,
                   calls, raised_at, entry_role, history, vs_create_calls, create_ok>>

Updated_reset(id, field, value) ==
    IF field = "instructions"
    THEN [assistants[id] EXCEPT !.instructions = value, !.vector_store_ids = <<>>]
    ELSE [assistants[id] EXCEPT !.vector_store_ids = value]

\* assistants.update: changes the given fields of the remote assistant in
\* place and returns it
Updated(id, field, value) ==
    IF field = "instructions"
    THEN [assistants[id] EXCEPT !.instructions = value]
    ELSE [assistants[id] EXCEPT !.vector_store_ids = value]

RoleChanged_always == TRUE

RoleChanged == session_state.current_role # role_selection

\* lines 77-84
ReconcileRole ==
    /\ pc = "role"
    /\ IF RoleChanged
       THEN /\ calls' = Append(calls, "assistants.update(instructions)")
            /\ \/ LET id == session_state.assistant.id
                      assistant == Updated(id, "instructions",
                                           get_instructions(role_selection))
                  IN /\ assistants' = [assistants EXCEPT ![id] = assistant]
                     /\ session_state' = [session_state EXCEPT
                                            !.assistant = assistant,
                                            !.current_role = role_selection]
                     /\ pc' = "vs"
                     /\ UNCHANGED <<cycle, raised_at, chat_input_shown>>
               \/ /\ Raise("assistants.update(instructions)")
                  /\ UNCHANGED <<assistants, session_state>>
       ELSE /\ pc' = "vs"
            /\ UNCHANGED <<calls, assistants, session_state, cycle, raised_at,
                           chat_input_shown>>
    /\ UNCHANGED <<inputs, session_keys, locals, vector_stores, environment,
                   entry_role, history, vs_create_calls, create_ok>>

StoreMissing == session_state.vector_store = None

\* lines 141-150: the persisted identifier is tried first; a failing retrieve is
\* caught and reported in the sidebar
LookupVectorStore ==
    /\ pc = "vs"
    /\ IF StoreMissing
       THEN /\ pc' = "vs_create"
            /\ IF secrets
               THEN \/ /\ vector_store' = <<StoredVsId>>
                       /\ calls' = calls \o <<"vector_stores.retrieve",
                                              "sidebar: Loaded persisted vector store ID">>
                    \/ /\ vector_store' = None
                       /\ calls' = calls \o <<"vector_stores.retrieve",
                                              "sidebar: Failed to load persisted vector store">>
               ELSE /\ vector_store' = None
                    /\ UNCHANGED calls
       ELSE /\ pc' = "chat"
            /\ UNCHANGED <<calls, vector_store>>
    /\ UNCHANGED <<cycle, inputs, chat_input_shown, session_keys, session_state,
                   thread, messages_list, exc, remote, environment, raised_at,
                   entry_role, history, vs_create_calls, create_ok>>

NeedCreate_always == TRUE

NeedCreate == vector_store = None

\* lines 152-153
CreateVectorStore ==
    /\ pc = "vs_create"
    /\ IF NeedCreate
       THEN /\ calls' = Append(calls, "vector_stores.create")
            /\ vs_create_calls' = vs_create_calls + 1
            /\ \/ /\ vector_stores' = Append(vector_stores, <<>>)
                  /\ vector_store' = <<Len(vector_stores) + 1>>
                  /\ pc' = "vs_upload"
                  /\ UNCHANGED <<cycle, raised_at, chat_input_shown>>
               \/ /\ Raise("vector_stores.create")
                  /\ UNCHANGED <<vector_stores, vector_store>>
       ELSE /\ pc' = "vs_attach"
            /\ UNCHANGED <<calls, vs_create_calls, vector_stores, vector_store,
                           cycle, raised_at, chat_input_shown>>
    /\ UNCHANGED <<inputs, session_keys, session_state, thread,
                   messages_list, exc, assistants, environment, entry_role,
                   history, create_ok>>

pdf_paths == get_pdf_file_paths(fs.letters, fs.ordinances)

Truthy_always(list) == TRUE

\* "if pdf_paths:" -- a list is true when it is not empty
Truthy(list) == list # <<>>

\* lines 154-164: opening the files and upload_and_poll are one upload attempt
UploadFiles ==
    /\ pc = "vs_upload"
    /\ IF Truthy(pdf_paths)
       THEN /\ calls' = Append(calls, "file_batches.upload_and_poll")
            /\ \/ /\ vector_stores' = [vector_stores EXCEPT ![vector_store[1]] = pdf_paths]
                  /\ pc' = "vs_attach"
                  /\ UNCHANGED <<cycle, raised_at, chat_input_shown>>
               \/ /\ Raise("file_batches.upload_and_poll")
                  /\ UNCHANGED vector_stores
       ELSE /\ pc' = "vs_attach"
            /\ UNCHANGED <<calls, vector_stores, cycle, raised_at, chat_input_shown>>
    /\ UNCHANGED <<inputs, session_keys, session_state, locals, assistants,
                   environment, entry_role, history, vs_create_calls, create_ok>>

\* lines 165-171: the store is put in the session, then attached
AttachVectorStore ==
    /\ pc = "vs_attach"
    /\ calls' = Append(calls, "assistants.update(tool_resources)")
    /\ \/ LET id == session_state.assistant.id
              assistant == Updated(id, "tool_resources", vector_store)
          IN /\ assistants' = [assistants EXCEPT ![id] = assistant]
             /\ session_state' = [session_state EXCEPT
                                    !.vector_store = vector_store,
                                    !.assistant = assistant]
             /\ pc' = "chat"
             /\ UNCHANGED <<cycle, raised_at, chat_input_shown>>
       \/ /\ session_state' = [session_state EXCEPT !.vector_store = vector_store]
          /\ Raise("assistants.update(tool_resources)")
          /\ UNCHANGED assistants
    /\ UNCHANGED <<inputs, session_keys, locals, vector_stores, environment,
                   entry_role, history, vs_create_calls, create_ok>>

AppendTurn_front(messages, turn) == <<turn>> \o messages

AppendTurn(messages, turn) == Append(messages, turn)

\* lines 176-185: the transcript and the chat input are drawn; a submitted
\* prompt becomes a user turn
ChatInput ==
    /\ pc = "chat"
    /\ chat_input_shown' = TRUE
    /\ IF prompt # NoPrompt
       THEN /\ session_state' = [session_state EXCEPT
                                   !.messages = AppendTurn(@, Turn("user", prompt))]
            /\ pc' = "thread"
       ELSE /\ pc' = "idle"
            /\ UNCHANGED session_state
    /\ UNCHANGED <<cycle, inputs, session_keys, locals, remote, environment, calls,
                   raised_at, entry_role, history, vs_create_calls, create_ok>>

Catch_propagate(e) ==
    /\ exc' = e
    /\ pc' = "idle"

\* an exception inside the try block of line 186
Catch(e) ==
    /\ exc' = e
    /\ pc' = "except"

NewThread_latest(msgs) == [messages |-> <<msgs[Len(msgs)]>>, assistant_id |-> 0]

\* threads.create(messages=messages)
NewThread(msgs) == [messages |-> msgs, assistant_id |-> 0]

\* lines 123-124
CreateThread ==
    /\ pc = "thread"
    /\ calls' = Append(calls, "threads.create")
    /\ \/ /\ thread' = NewThread(session_state.messages)
          /\ pc' = "run"
          /\ UNCHANGED exc
       \/ /\ Catch(APIConnectionError)
          /\ UNCHANGED thread
    /\ UNCHANGED <<cycle, inputs, chat_input_shown, session_keys, session_state,
                   vector_store, messages_list, remote, environment, raised_at,
                   entry_role, history, vs_create_calls, create_ok>>

\* lines 125-131
CreateAndPollRun ==
    /\ pc = "run"
    /\ calls' = Append(calls, "runs.create_and_poll")
    /\ \/ /\ thread' = [thread EXCEPT !.assistant_id = session_state.assistant.id]
          /\ pc' = "list"
          /\ UNCHANGED exc
       \/ /\ Catch(APIConnectionError)
          /\ UNCHANGED thread
    /\ UNCHANGED <<cycle, inputs, chat_input_shown, session_keys, session_state,
                   vector_store, messages_list, remote, environment, raised_at,
                   entry_role, history, vs_create_calls, create_ok>>

\* line 132
ListMessages ==
    /\ pc = "list"
    /\ calls' = Append(calls, "messages.list")
    /\ \/ /\ messages_list' \in MessageLists
          /\ pc' = "return"
          /\ UNCHANGED exc
       \/ /\ Catch(APIConnectionError)
          /\ UNCHANGED messages_list
    /\ UNCHANGED <<cycle, inputs, chat_input_shown, session_keys, session_state,
                   vector_store, thread, remote, environment, raised_at,
                   entry_role, history, vs_create_calls, create_ok>>

\* lines 133-136: [raises, value], value being the reply or str(e)
Extract(list) ==
    IF list = <<>> THEN [raises |-> FALSE, value |-> NoResponse]
    ELSE IF list[1].content = <<>> THEN [raises |-> TRUE, value |-> IndexError]
    ELSE IF list[1].content[1].type # "text" THEN [raises |-> TRUE, value |-> AttributeError]
    ELSE [raises |-> FALSE, value |-> strip(list[1].content[1].value)]

\* lines 133-136 and 188-189
ReturnResponse ==
    /\ pc = "return"
    /\ LET bot_response == Extract(messages_list)
       IN IF bot_response.raises
          THEN /\ Catch(bot_response.value)
               /\ UNCHANGED session_state
          ELSE /\ session_state' = [session_state EXCEPT
                      !.messages = AppendTurn(@, Turn("assistant", bot_response.value))]
               /\ pc' = "idle"
               /\ UNCHANGED exc
    /\ UNCHANGED <<cycle, inputs, chat_input_shown, session_keys, vector_store,
                   thread, messages_list, remote, environment, calls, raised_at,
                   entry_role, history, vs_create_calls, create_ok>>

error_msg_bare(e) == e

error_msg(e) == ErrorPrefix \o e

HandleException_swallow ==
    /\ pc = "except"
    /\ pc' = "idle"
    /\ UNCHANGED <<cycle, inputs, chat_input_shown, session_keys, session_state,
                   locals, remote, environment, calls, raised_at, entry_role,
                   history, vs_create_calls, create_ok>>

\* lines 190-193
HandleException ==
    /\ pc = "except"
    /\ session_state' = [session_state EXCEPT
                           !.messages = AppendTurn(@, Turn("assistant", error_msg(exc)))]
    /\ pc' = "idle"
    /\ UNCHANGED <<cycle, inputs, chat_input_shown, session_keys, locals, remote,
                   environment, calls, raised_at, entry_role, history,
                   vs_create_calls, create_ok>>

UserInteraction == \E r \in Roles, p \in Prompts \cup {NoPrompt} : Rerun(r, p)

Next ==
    \/ UserInteraction
    \/ InitSessionState
    \/ CreateAssistant
    \/ SeedMessages
    \/ ReconcileRole
    \/ LookupVectorStore
    \/ CreateVectorStore
    \/ UploadFiles
    \/ AttachVectorStore
    \/ ChatInput
    \/ CreateThread
    \/ CreateAndPollRun
    \/ ListMessages
    \/ ReturnResponse
    \/ HandleException

Spec == Init /\ [][Next]_vars

\* The script runs to its end once started: every remote call returns or
\* cycle (the client and the polled jobs have their own timeouts).  The user
\* is never obliged to interact, so Rerun is not fair.
Step ==
    \/ InitSessionState
    \/ CreateAssistant
    \/ SeedMessages
    \/ ReconcileRole
    \/ LookupVectorStore
    \/ CreateVectorStore
    \/ UploadFiles
    \/ AttachVectorStore
    \/ ChatInput
    \/ CreateThread
    \/ CreateAndPollRun
    \/ ListMessages
    \/ ReturnResponse
    \/ HandleException

FairSpec == Spec /\ WF_vars(Step)

\* get_pdf_file_paths on its own, for every content of the two folders
ResolverInit ==
    /\ InitSession
    /\ secrets = FALSE
    /\ fs \in [letters : Folders, ordinances : Folders]

\* lines 89-113
ResolveDocuments ==
    /\ pc = "idle"
    /\ pc' = "resolved"
    /\ resolved' = get_pdf_file_paths(fs.letters, fs.ordinances)
    /\ UNCHANGED <<cycle, inputs, chat_input_shown, session_keys, session_state,
                   locals, remote, secrets, fs, calls, raised_at, entry_role,
                   history, vs_create_calls, create_ok>>

ResolverNext == ResolveDocuments

ResolverSpec == ResolverInit /\ [][ResolverNext]_vars

\* ------------------------------------------------------------ vocabulary
messages == session_state.messages

CycleEnded == pc = "idle" /\ cycle > 0

InGenerateResponse == pc \in {"thread", "run", "list", "return"}

RemoteAssistant == assistants[session_state.assistant.id]

Issued(call) == Count(calls, call)

\* C1: generate_response is never reached while the assistant's file_search
\* resources do not reference the session's vector store.
C1_IndexAttachedBeforeReply ==
    InGenerateResponse =>
        /\ session_state.vector_store # None
        /\ RemoteAssistant.vector_store_ids = session_state.vector_store

\* C2: whenever generate_response runs, the remote assistant's instructions are
\* get_instructions of the role selected in that cycle.
C2_InstructionsMatchRole ==
    InGenerateResponse =>
        RemoteAssistant.instructions = get_instructions(role_selection)

UpdateIffChanged ==
    InstructionUpdates(calls) = IF entry_role # role_selection THEN 1 ELSE 0

\* after a completed cycle with Applicant, a cycle selecting Planner and then a
\* cycle selecting Applicant
ApplicantPlannerApplicant ==
    /\ prev_cycle.completed_role = "Applicant"
    /\ prev_cycle.entry_role = "Applicant"
    /\ prev_cycle.role = "Planner"
    /\ role_selection = "Applicant"

ReachedReconciliation(at) == at # "assistants.create"

ErrorTurnAppended ==
    /\ Len(messages) = Len(entry_messages) + 2
    /\ IsPrefix(entry_messages, messages)
    /\ messages[Len(messages) - 1] = Turn("user", prompt)
    /\ messages[Len(messages)].role = "assistant"
    /\ StartsWith(messages[Len(messages)].content, ErrorPrefix)

\* C4: when a step of the reply cycle raises, exactly one assistant turn
\* starting with "Error: " is appended after the user turn, the cycle runs to
\* its end (nothing propagates, the chat input is drawn, the session keeps its
\* assistant and vector store), and a later cycle can submit again.
C4_ErrorTurnOnFailure ==
    /\ exc # <<>> => pc \in {"except", "idle"}
    /\ (CycleEnded /\ exc # <<>>) =>
          /\ ErrorTurnAppended
          /\ raised_at = ""
          /\ chat_input_shown
          /\ In("assistant") /\ In("messages")
          /\ session_state.vector_store # None
          /\ (cycle < MaxCycles /\ Submissions < MaxSubmits) =>
                ENABLED Rerun(role_selection, <<"q">>)

\* an error turn, and after it a user turn answered by a reply
C4_Witness ==
    /\ CycleEnded
    /\ exc = <<>>
    /\ Len(messages) = 5
    /\ StartsWith(messages[3].content, ErrorPrefix)
    /\ messages[4].role = "user"
    /\ messages[5] = Turn("assistant", <<"a">>)

SetupRan ==
    \/ Issued("vector_stores.retrieve") > 0
    \/ Issued("vector_stores.create") > 0
    \/ Issued("assistants.update(tool_resources)") > 0

SetupOver == pc \in {"chat", "thread", "run", "list", "return", "except", "idle"}

Retrieved == Issued("sidebar: Loaded persisted vector store ID") > 0

CreateThenUpload ==
    \E i, j \in 1..Len(calls) :
        /\ i < j
        /\ calls[i] = "vector_stores.create"
        /\ calls[j] = "file_batches.upload_and_poll"

C6_CreatedAtMostOnce ==
    /\ vs_create_calls <= 1
    /\ Len(vector_stores) <= 1

\* C7: assistants.create returns at most once, the session's assistant id
\* never changes once stored, and every update is made in place on that one
\* remote assistant, of which the session holds the current copy.
C7_OneAssistant ==
    [][ /\ create_ok' <= 1
        /\ Len(assistants') <= 1
        /\ In("assistant") =>
              /\ "assistant" \in session_keys'
              /\ session_state'.assistant.id = session_state.assistant.id
              /\ assistants'[session_state.assistant.id] = session_state'.assistant ]_vars

\* both kinds of update have been applied to the assistant
C7_Witness ==
    /\ CycleEnded
    /\ In("assistant")
    /\ InstructionUpdates(calls) = 1
    /\ session_state.assistant.instructions = PlannerInstructions
    /\ session_state.assistant.vector_store_ids # <<>>

\* C8: whenever st.session_state.messages exists it is non-empty and starts
\* with the greeting turn; no turn is stored before the greeting.
C8_GreetingFirst ==
    IF In("messages")
    THEN messages # <<>> /\ messages[1] = Turn("assistant", Greeting)
    ELSE messages = <<>>

C8_Witness ==
    /\ In("messages")
    /\ Len(messages) >= 2
    /\ messages[2].role = "user"

\* C9: the transcript only grows at its end: every step leaves the transcript
\* it found as a prefix of the new one.
C9_AppendOnly ==
    [][IsPrefix(messages, session_state'.messages)]_vars

\* a transcript that went through a failed cycle, an error reply and a role switch
C9_Witness ==
    /\ CycleEnded
    /\ Len(messages) = 5
    /\ StartsWith(messages[3].content, ErrorPrefix)
    /\ vs_create_calls = 2
    /\ InstructionUpdates(calls) = 1

UserTurnAnswered ==
    /\ Len(messages) = Len(entry_messages) + 2
    /\ IsPrefix(entry_messages, messages)
    /\ messages[Len(messages) - 1] = Turn("user", prompt)
    /\ messages[Len(messages)].role = "assistant"

AttachedIds(assistant) == assistant.vector_store_ids

\* C11: whenever the assistant (the remote one or the session's copy of it)
\* has vector_store_ids set, they are the id of st.session_state.vector_store,
\* and no step changes or clears them once they are set.
C11_AttachedIndexIsSessionIndex ==
    /\ [](In("assistant") =>
            /\ AttachedIds(RemoteAssistant) # <<>> =>
                  AttachedIds(RemoteAssistant) = session_state.vector_store
            /\ AttachedIds(session_state.assistant) # <<>> =>
                  AttachedIds(session_state.assistant) = session_state.vector_store)
    /\ [][(In("assistant") /\ AttachedIds(RemoteAssistant) # <<>>) =>
            /\ AttachedIds(assistants'[session_state'.assistant.id])
                  = AttachedIds(RemoteAssistant)
            /\ AttachedIds(session_state'.assistant) = AttachedIds(RemoteAssistant)
            /\ session_state'.vector_store = session_state.vector_store]_vars

\* a store attached, then a role switch that updated the instructions, then a
\* submission answered
C11_Witness ==
    /\ CycleEnded
    /\ In("assistant")
    /\ AttachedIds(RemoteAssistant) # <<>>
    /\ AttachedIds(RemoteAssistant) = session_state.vector_store
    /\ InstructionUpdates(calls) = 1
    /\ prompt # NoPrompt
    /\ UserTurnAnswered

StatewidePath == Path(ORDINANCES_DIR, statewide_file)

StatewidePresent == fs.ordinances.exists /\ InListing(statewide_file, fs.ordinances.files)

\* C12: whatever the two folders hold, when the ordinances folder contains
\* ADUHandbookUpdate.pdf the list get_pdf_file_paths returns has that file at
\* index 0 and holds it exactly once.
C12_StatewideFirstOnce ==
    (pc = "resolved" /\ StatewidePresent) =>
        /\ resolved # <<>>
        /\ resolved[1] = StatewidePath
        /\ Count(resolved, StatewidePath) = 1

\* the statewide file listed after another ordinance, and a letters folder
\* that has PDFs of its own
C12_Witness ==
    /\ pc = "resolved"
    /\ StatewidePresent
    /\ fs.ordinances.files[1] # statewide_file
    /\ IsPdf(fs.ordinances.files[1])
    /\ fs.letters.exists
    /\ fs.letters.files # <<>>
    /\ IsPdf(fs.letters.files[1])
    /\ Len(resolved) = 3

FromLetters(i) == resolved[i].dir = LETTERS_DIR

FromOrdinances(i) == resolved[i].dir = ORDINANCES_DIR

\* C13 as stated: in the returned list every path from the ordinances folder
\* precedes every path from the letters folder.
C13_AsStated ==
    pc = "resolved" =>
        \A i, j \in 1..Len(resolved) :
            (FromOrdinances(i) /\ FromLetters(j)) => i < j

PdfPathsIn(dir, folder) ==
    { Path(dir, folder.files[k]) :
        k \in { n \in 1..Len(folder.files) : folder.exists /\ IsPdf(folder.files[n]) } }

\* C13 (amended): the returned list holds each PDF of the two folders once, the
\* statewide ordinance first when present, then the letter PDFs, then the
\* other ordinance PDFs: every letters path precedes every ordinances path
\* other than the statewide one.
C13_StatewideLettersOrdinances ==
    pc = "resolved" =>
        /\ { resolved[i] : i \in 1..Len(resolved) }
              = PdfPathsIn(LETTERS_DIR, fs.letters)
                \cup PdfPathsIn(ORDINANCES_DIR, fs.ordinances)
        /\ \A i, j \in 1..Len(resolved) : resolved[i] = resolved[j] => i = j
        /\ StatewidePresent => resolved[1] = StatewidePath
        /\ \A i, j \in 1..Len(resolved) :
              (FromLetters(i) /\ FromOrdinances(j) /\ resolved[j] # StatewidePath)
                 => i < j

\* a letter, the statewide ordinance and another ordinance resolved together
C13_Witness ==
    /\ pc = "resolved"
    /\ Len(resolved) = 3
    /\ resolved[1] = StatewidePath
    /\ FromLetters(2)
    /\ FromOrdinances(3)

NoPdfsIn(folder) ==
    ~folder.exists \/ \A k \in 1..Len(folder.files) : ~IsPdf(folder.files[k])

NoPdfs == NoPdfsIn(fs.letters) /\ NoPdfsIn(fs.ordinances)

CreationPathTaken == Issued("vector_stores.create") > 0

IndexStoredAndAttached ==
    /\ session_state.vector_store # None
    /\ In("assistant")
    /\ AttachedIds(RemoteAssistant) = session_state.vector_store
    /\ AttachedIds(session_state.assistant) = session_state.vector_store

Trimmed(r, text) ==
    /\ r # <<>> => r[1] \notin Whitespace /\ r[Len(r)] \notin Whitespace
    /\ \E a \in 0..Len(text) :
          /\ a + Len(r) <= Len(text)
          /\ SubSeq(text, a + 1, a + Len(r)) = r
          /\ \A k \in 1..Len(text) :
                (k <= a \/ k > a + Len(r)) => text[k] \in Whitespace

ReplyReturned == CycleEnded /\ prompt # NoPrompt /\ raised_at = "" /\ exc = <<>>

\* C15: when generate_response returns, the assistant turn appended after the
\* user turn is, for a non-empty message list, the text of the first message
\* without leading and trailing whitespace, and for an empty list exactly
\* "No response received from the assistant." (which is no "Error: " turn).
C15_ReplyFromMessageList ==
    ReplyReturned =>
        /\ UserTurnAnswered
        /\ LET reply == messages[Len(messages)].content
           IN IF messages_list = <<>>
              THEN /\ reply = NoResponse
                   /\ reply = <<"No response received from the assistant.">>
                   /\ ~StartsWith(reply, ErrorPrefix)
              ELSE /\ messages_list[1].content # <<>>
                   /\ messages_list[1].content[1].type = "text"
                   /\ Trimmed(reply, messages_list[1].content[1].value)

\* a fallback turn, and after it a reply trimmed on both sides taken from the
\* first of two messages
C15_Witness ==
    /\ ReplyReturned
    /\ Len(messages) = 5
    /\ messages[3] = Turn("assistant", NoResponse)
    /\ Len(messages_list) = 2
    /\ messages_list[1].content[1].value = <<" ", "a", "\n">>
    /\ messages[5] = Turn("assistant", <<"a">>)

ThreadCreated == pc \in {"run", "list", "return"}

\* C16: the user turn is appended before threads.create is called, and the
\* messages the thread is created with are the whole transcript in order: the
\* transcript the cycle found (greeting first, earlier "Error: " turns
\* included) followed by the user turn just submitted.
C16_WholeTranscriptSent ==
    /\ pc = "thread" =>
          /\ thread = NoThread
          /\ messages = Append(entry_messages, Turn("user", prompt))
    /\ ThreadCreated =>
          /\ thread # NoThread
          /\ thread.messages = messages
          /\ thread.messages = Append(entry_messages, Turn("user", prompt))
          /\ thread.messages[1] = Turn("assistant", Greeting)
          /\ prompt # NoPrompt

\* a second submission sent together with the error turn of the first
C16_Witness ==
    /\ pc = "run"
    /\ Len(thread.messages) = 4
    /\ thread.messages[2].role = "user"
    /\ StartsWith(thread.messages[3].content, ErrorPrefix)
    /\ thread.messages[4] = Turn("user", prompt)

SetupCalls ==
    {"assistants.create", "assistants.update(instructions)", "vector_stores.create",
     "file_batches.upload_and_poll", "assistants.update(tool_resources)"}

SetupFailed == raised_at # ""

NoReplyRequested ==
    /\ Issued("threads.create") = 0
    /\ Issued("runs.create_and_poll") = 0
    /\ Issued("messages.list") = 0
    /\ thread = NoThread

\* C17 as stated: a cycle in which a setup call raises leaves the transcript
\* as it found it and creates no thread and no run.
C17_AsStated ==
    SetupFailed =>
        /\ messages = entry_messages
        /\ NoReplyRequested

\* C17 (amended): a setup call that raises ends the cycle on the spot, before
\* the chat input is drawn: no thread and no run is created, and no turn is
\* appended to the transcript, which stays as the cycle found it except that
\* a cycle that found no transcript may have seeded it with the greeting.
C17_SetupFailureHaltsCycle ==
    SetupFailed =>
        /\ raised_at \in SetupCalls
        /\ CycleEnded
        /\ ~chat_input_shown
        /\ exc = <<>>
        /\ NoReplyRequested
        /\ IF entry_messages # <<>>
           THEN messages = entry_messages
           ELSE messages \in {<<>>, <<Turn("assistant", Greeting)>>}

\* a submission made together with a role switch whose instruction update
\* raises: the message is not appended
C17_Witness ==
    /\ CycleEnded
    /\ raised_at = "assistants.update(instructions)"
    /\ prompt # NoPrompt
    /\ Len(messages) = 3
    /\ messages = entry_messages

Speaker(i) == IF i % 2 = 1 THEN "assistant" ELSE "user"

SubmissionHandled == prompt # NoPrompt /\ raised_at = ""

\* C18: at the end of every cycle the transcript (once it exists) has odd
\* length 1 + 2n, n being the number of submissions handled, and its speakers
\* alternate assistant, user, assistant, ...: a cycle that handles a
\* submission adds one user turn and one assistant turn (reply, fallback or
\* error) after it, and any other cycle adds nothing.
C18_TurnsAlternate ==
    (CycleEnded /\ In("messages")) =>
        /\ Len(messages) % 2 = 1
        /\ Len(messages) = 1 + 2 * Submissions
        /\ \A i \in 1..Len(messages) : messages[i].role = Speaker(i)
        /\ IF SubmissionHandled
           THEN /\ Len(messages) = Len(entry_messages) + 2
                /\ messages[Len(messages) - 1] = Turn("user", prompt)
           ELSE \/ messages = entry_messages
                \/ entry_messages = <<>> /\ Len(messages) = 1

\* a reply, a fallback and an error turn, each right after its user turn
C18_Witness ==
    /\ CycleEnded
    /\ Len(messages) = 2 * MaxSubmits + 1
    /\ exc # <<>>
    /\ StartsWith(messages[Len(messages)].content, ErrorPrefix)
    /\ messages[3].content \in {NoResponse, <<"a">>}
    /\ messages[2].role = "user"

TypeOK ==
    /\ pc \in {"idle", "init", "assistant", "messages", "role", "vs", "vs_create",
               "vs_upload", "vs_attach", "chat", "thread", "run", "list",
               "return", "except", "resolved"}
    /\ cycle \in 0..MaxCycles
    /\ role_selection \in Roles
    /\ session_keys \subseteq {"vector_store", "current_role", "assistant", "messages"}
====
